---- MODULE Spec2Model ----
(***************************************************************************)
(* Model of the quantrocket client's request/response translation layer:   *)
(* the endpoint functions of quantrocket.countdown and quantrocket.ibg,    *)
(* their CLI adapters, and the houston transport client they call.         *)
(*                                                                         *)
(* A behaviour is one call of an entry point (an endpoint function or a    *)
(* CLI adapter).  The call stack is the sequence `frames`; the program     *)
(* counter of a frame is the source line of the statement it executes      *)
(* next.  The remote service is the environment: every transport call      *)
(* answers with any status and any body of the sets below, or fails.       *)
(***************************************************************************)
EXTENDS Integers, Sequences, FiniteSets, TLC

VARIABLES frames, ret, outcome, calls, trace, file, entry

vars == <<frames, ret, outcome, calls, trace, file, entry>>

----------------------------------------------------------------------------
(* Python values.  Every value carries its type so that truthiness and     *)
(* equality are decided as Python decides them.                            *)

PyNone == [t |-> "none"]
PyStr(s) == [t |-> "str", v |-> s]
PyBool(b) == [t |-> "bool", v |-> b]
PyList(s) == [t |-> "list", v |-> s]
PyDict(d) == [t |-> "dict", v |-> d]
PyText(c) == [t |-> "text", v |-> c]
PyTuple(s) == [t |-> "tuple", v |-> s]
PyInt(n) == [t |-> "int", v |-> n]

EmptyDict == [k \in {} |-> PyNone]

Put(d, k, v) == [x \in (DOMAIN d) \cup {k} |-> IF x = k THEN v ELSE d[x]]

(* bool(x) *)
Truthy(x) ==
    CASE x.t = "none" -> FALSE
      [] x.t = "str" -> x.v # ""
      [] x.t = "bool" -> x.v
      [] x.t = "list" -> Len(x.v) > 0
      [] x.t = "dict" -> DOMAIN x.v # {}
      [] x.t = "text" -> Len(x.v) > 0
      [] OTHER -> TRUE

(* "{0}".format(x) *)
Format(x) == IF x.t = "none" THEN "None" ELSE x.v

----------------------------------------------------------------------------
(* Response bodies are token sequences; json() parses them.                *)

LBrace == [k |-> "punct", v |-> "{"]
RBrace == [k |-> "punct", v |-> "}"]
LBracket == [k |-> "punct", v |-> "["]
RBracket == [k |-> "punct", v |-> "]"]
Colon == [k |-> "punct", v |-> ":"]
Comma == [k |-> "punct", v |-> ","]
Quoted(s) == [k |-> "string", v |-> s]
Raw(s) == [k |-> "raw", v |-> s]

ParseFail == [ok |-> FALSE, val |-> PyNone]
ParseOk(v) == [ok |-> TRUE, val |-> v]

RECURSIVE ParseMembers(_)
ParseMembers(s) ==
    IF Len(s) < 3 \/ s[1].k # "string" \/ s[2] # Colon \/ s[3].k # "string"
    THEN ParseFail
    ELSE IF Len(s) = 3
         THEN ParseOk(Put(EmptyDict, s[1].v, PyStr(s[3].v)))
         ELSE IF s[4] # Comma
              THEN ParseFail
              ELSE LET rest == ParseMembers(SubSeq(s, 5, Len(s)))
                   IN IF rest.ok
                      THEN ParseOk(Put(rest.val, s[1].v, PyStr(s[3].v)))
                      ELSE ParseFail

RECURSIVE ParseElements(_)
ParseElements(s) ==
    IF Len(s) < 1 \/ s[1].k # "string"
    THEN ParseFail
    ELSE IF Len(s) = 1
         THEN ParseOk(<<PyStr(s[1].v)>>)
         ELSE IF s[2] # Comma
              THEN ParseFail
              ELSE LET rest == ParseElements(SubSeq(s, 3, Len(s)))
                   IN IF rest.ok
                      THEN ParseOk(<<PyStr(s[1].v)>> \o rest.val)
                      ELSE ParseFail

JsonLoads(c) ==
    IF Len(c) < 2
    THEN ParseFail
    ELSE LET inner == SubSeq(c, 2, Len(c) - 1)
         IN IF c[1] = LBrace /\ c[Len(c)] = RBrace
            THEN IF inner = <<>>
                 THEN ParseOk(PyDict(EmptyDict))
                 ELSE LET m == ParseMembers(inner)
                      IN IF m.ok THEN ParseOk(PyDict(m.val)) ELSE ParseFail
            ELSE IF c[1] = LBracket /\ c[Len(c)] = RBracket
                 THEN IF inner = <<>>
                      THEN ParseOk(PyList(<<>>))
                      ELSE LET e == ParseElements(inner)
                           IN IF e.ok THEN ParseOk(PyList(e.val)) ELSE ParseFail
                 ELSE ParseFail

(* The bodies the remote side answers with: nothing, JSON objects and     *)
(* arrays of at most MaxMembers members, plain text, and JSON cut short.   *)

MaxMembers == 2

Pairs == << <<"error", "not found">>, <<"ibg1", "running">>, <<"ibg2", "stopped">> >>

Names == <<"ibg1", "ibg2", "ibg3">>

(* the members of seq at the indices of S, in order *)
RECURSIVE Pick(_, _)
Pick(seq, S) ==
    IF S = {}
    THEN <<>>
    ELSE LET m == CHOOSE i \in S : \A j \in S : i <= j
         IN <<seq[m]>> \o Pick(seq, S \ {m})

RECURSIVE EncodeMembers(_)
EncodeMembers(ps) ==
    IF Len(ps) = 0
    THEN <<>>
    ELSE LET first == <<Quoted(ps[1][1]), Colon, Quoted(ps[1][2])>>
         IN IF Len(ps) = 1
            THEN first
            ELSE first \o <<Comma>> \o EncodeMembers(Tail(ps))

RECURSIVE EncodeElements(_)
EncodeElements(ns) ==
    IF Len(ns) = 0
    THEN <<>>
    ELSE IF Len(ns) = 1
         THEN <<Quoted(ns[1])>>
         ELSE <<Quoted(ns[1]), Comma>> \o EncodeElements(Tail(ns))

EncodeObject(ps) == <<LBrace>> \o EncodeMembers(ps) \o <<RBrace>>

EncodeArray(ns) == <<LBracket>> \o EncodeElements(ns) \o <<RBracket>>

Contents ==
    { <<>>, <<Raw("internal error")>>, <<LBrace, Quoted("error")>> }
    \cup {EncodeObject(Pick(Pairs, S)) :
             S \in {T \in SUBSET (1..Len(Pairs)) : Cardinality(T) <= MaxMembers}}
    \cup {EncodeArray(SubSeq(Names, 1, n)) :
             n \in {m \in 0..Len(Names) : m <= MaxMembers}}

Statuses == {200, 204, 302, 404, 500}

Responses == [status : Statuses, content : Contents]

----------------------------------------------------------------------------
(* Exceptions, frames and the call stack.                                  *)

Exc(type, status, msg) == [t |-> "exc", type |-> type, status |-> status, msg |-> msg]

Running == [kind |-> "running", val |-> PyNone]
Returned(v) == [kind |-> "return", val |-> v]
Raised(e) == [kind |-> "raise", val |-> e]

Frame(fn, pc, loc) == [fn |-> fn, pc |-> pc, loc |-> loc]

Top == frames[Len(frames)]

At(fn, pc) == Len(frames) > 0 /\ Top.fn = fn /\ Top.pc = pc

(* an event of the history `trace`: what the frame fn did, on a response   *)
(* of that status, with that value                                         *)
Ev(ev, status, val) == [ev |-> ev, fn |-> Top.fn, status |-> status, val |-> val]

(* the current frame does evs and moves to line pc with locals loc *)
Goto(evs, pc, loc) ==
    /\ frames' = [frames EXCEPT ![Len(frames)] = Frame(Top.fn, pc, loc)]
    /\ trace' = trace \o evs
    /\ ret' = PyNone
    /\ UNCHANGED <<outcome, entry>>

(* the current frame calls fn(loc) and resumes at line pc when it returns *)
Call(pc, fn, start, loc) ==
    /\ frames' = Append([frames EXCEPT ![Len(frames)] = Frame(Top.fn, pc, Top.loc)],
                        Frame(fn, start, loc))
    /\ trace' = Append(trace, Ev("call", 0, PyStr(fn)))
    /\ ret' = PyNone
    /\ UNCHANGED <<outcome, entry>>

(* the current frame does evs and returns v: the frame is popped, the      *)
(* caller (if any) receives v                                              *)
Return(evs, v) ==
    /\ frames' = SubSeq(frames, 1, Len(frames) - 1)
    /\ trace' = trace \o evs \o <<Ev("return", 0, v)>>
    /\ IF Len(frames) = 1
       THEN ret' = PyNone /\ outcome' = Returned(v)
       ELSE ret' = v /\ UNCHANGED outcome
    /\ UNCHANGED entry

(* the frames below the current one that catch exceptions *)
Handlers == {i \in 1..(Len(frames) - 1) : frames[i].fn = "json_to_cli"}

(* the current frame does evs and raises e: no endpoint function or        *)
(* adapter has a try block, so the stack unwinds to the innermost          *)
(* json_to_cli frame, or the error escapes.                                *)
Raise(evs, e) ==
    /\ trace' = trace \o evs \o <<Ev("raise", 0, e)>>
    /\ ret' = PyNone
    /\ UNCHANGED entry
    /\ IF Handlers = {}
       THEN /\ frames' = <<>>
            /\ outcome' = Raised(e)
       ELSE LET h == CHOOSE i \in Handlers : \A j \in Handlers : j <= i
            IN /\ frames' = [SubSeq(frames, 1, h) EXCEPT ![h] =
                                Frame("json_to_cli", 3, Put(frames[h].loc, "exc", e))]
               /\ UNCHANGED outcome

----------------------------------------------------------------------------
(* houston: the transport client and the status translator.                *)

Request(verb, path, kw) == [verb |-> verb, path |-> path, kw |-> kw]

(* houston.get / put / post / delete: one blocking HTTP request.  It       *)
(* returns the response, kept in the local `response`, or raises a         *)
(* transport error.                                                        *)
HoustonReturns(verb, path, kw, pc) ==
    /\ calls' = Append(calls, Request(verb, path, kw))
    /\ \E r \in Responses :
          Goto(<<Ev("transport", 0, PyNone)>>, pc, Put(Top.loc, "response", r))

HoustonRaises(verb, path, kw) ==
    /\ calls' = Append(calls, Request(verb, path, kw))
    /\ Raise(<<Ev("transport", 0, PyNone)>>, Exc("ConnectionError", 0, PyNone))

Houston(verb, path, kw, pc) ==
    \/ HoustonReturns(verb, path, kw, pc)
    \/ HoustonRaises(verb, path, kw)

Is2xx(status) == status >= 200 /\ status < 300

(* the message of the error raised for a failed response *)
ErrorMessage(response) ==
    LET parsed == JsonLoads(response.content)
    IN IF parsed.ok /\ parsed.val.t = "dict" /\ "error" \in DOMAIN parsed.val.v
       THEN parsed.val.v["error"]
       ELSE PyText(response.content)

(* a translator that lets every status below 400 pass *)
raise_for_status_with_json_From400(response) ==
    IF response.status < 400
    THEN PyNone
    ELSE Exc("HTTPError", response.status, ErrorMessage(response))

(* houston.raise_for_status_with_json(response): the error it raises, or   *)
(* PyNone when it returns.                                                 *)
raise_for_status_with_json(response) ==
    IF Is2xx(response.status)
    THEN PyNone
    ELSE Exc("HTTPError", response.status, ErrorMessage(response))

(* a status check whose error is caught and dropped by the caller *)
RaiseForStatus_Swallowed(pc) ==
    LET e == raise_for_status_with_json(Top.loc.response)
        ev == Ev("check", Top.loc.response.status, PyText(Top.loc.response.content))
    IN /\ UNCHANGED calls
       /\ IF e = PyNone
          THEN Goto(<<ev>>, pc, Top.loc)
          ELSE Goto(<<ev, Ev("raise", 0, e)>>, pc, Top.loc)

(* the statement houston.raise_for_status_with_json(response) at a line *)
RaiseForStatus(pc) ==
    LET e == raise_for_status_with_json(Top.loc.response)
        ev == Ev("check", Top.loc.response.status, PyText(Top.loc.response.content))
    IN /\ UNCHANGED calls
       /\ IF e = PyNone THEN Goto(<<ev>>, pc, Top.loc) ELSE Raise(<<ev>>, e)

(* response.json(): the decoded body, or the parse error it raises *)
ResponseJson(response) ==
    LET parsed == JsonLoads(response.content)
    IN IF parsed.ok
       THEN parsed.val
       ELSE Exc("JSONDecodeError", 0, PyText(response.content))

(* a return that turns an empty body into the empty mapping *)
ReturnJsonLenient ==
    LET v == ResponseJson(Top.loc.response)
        ev == Ev("json", Top.loc.response.status, PyText(Top.loc.response.content))
    IN /\ UNCHANGED calls
       /\ IF Len(Top.loc.response.content) = 0
          THEN Return(<<ev>>, PyDict(EmptyDict))
          ELSE IF v.t = "exc" THEN Raise(<<ev>>, v) ELSE Return(<<ev>>, v)

(* the statement `return response.json()` *)
ReturnJson ==
    LET v == ResponseJson(Top.loc.response)
        ev == Ev("json", Top.loc.response.status, PyText(Top.loc.response.content))
    IN /\ UNCHANGED calls
       /\ IF v.t = "exc" THEN Raise(<<ev>>, v) ELSE Return(<<ev>>, v)

(* a return that parses the body without looking at the content first *)
ReturnJsonAlways == ReturnJson

(* the statements `if not response.content: return {}` and                 *)
(* `return response.json()` of the functions that expect a 204             *)
ReturnJsonOrEmpty ==
    LET v == ResponseJson(Top.loc.response)
        content == Ev("content", Top.loc.response.status, PyText(Top.loc.response.content))
        json == Ev("json", Top.loc.response.status, PyText(Top.loc.response.content))
    IN /\ UNCHANGED calls
       /\ IF Len(Top.loc.response.content) = 0
          THEN Return(<<content>>, PyDict(EmptyDict))
          ELSE IF v.t = "exc"
               THEN Raise(<<content, json>>, v)
               ELSE Return(<<content, json>>, v)

----------------------------------------------------------------------------
(* quantrocket.ibg                                                         *)

(* params that always carry the status key *)
list_gateway_statuses_params_AlwaysStatus(status, gateways) ==
    LET p0 == Put(EmptyDict, "status", status)
    IN IF Truthy(gateways) THEN Put(p0, "gateways", gateways) ELSE p0

(* params of list_gateway_statuses *)
list_gateway_statuses_params(status, gateways) ==
    LET p0 == EmptyDict
        p1 == IF Truthy(gateways) THEN Put(p0, "gateways", gateways) ELSE p0
    IN IF Truthy(status) THEN Put(p1, "status", status) ELSE p1

list_gateway_statuses ==
    /\ UNCHANGED file
    /\ \/ /\ At("list_gateway_statuses", 176)
          /\ Houston("GET", <<"ibgrouter", "gateways">>,
                     [params |-> PyDict(list_gateway_statuses_params(
                                     Top.loc.status, Top.loc.gateways))],
                     183)
       \/ /\ At("list_gateway_statuses", 183)
          /\ RaiseForStatus(184)
       \/ /\ At("list_gateway_statuses", 184)
          /\ ReturnJson

(* a pre-check that tests `statuses is None` instead of `not statuses` *)
NoSuchGateway_IsNone(statuses) == statuses.t = "none"

(* the existence pre-check of get_credentials and set_credentials:         *)
(* `if not statuses: raise ValueError(...)`                                *)
NoSuchGateway(statuses) == ~Truthy(statuses)

(* a get_credentials that rejects a missing gateway name before listing *)
get_credentials_ValidatesFirst ==
    /\ UNCHANGED file
    /\ \/ /\ At("get_credentials", 74)
          /\ UNCHANGED calls
          /\ IF Truthy(Top.loc.gateway)
             THEN Call(75, "list_gateway_statuses", 176,
                       [status |-> PyNone, gateways |-> PyList(<<Top.loc.gateway>>)])
             ELSE Raise(<<>>, Exc("ValueError", 0, PyStr("no such IB Gateway")))
       \/ /\ At("get_credentials", 75)
          /\ UNCHANGED calls
          /\ IF NoSuchGateway(ret)
             THEN Raise(<<>>, Exc("ValueError", 0, PyStr("no such IB Gateway")))
             ELSE Goto(<<>>, 78, Put(Top.loc, "statuses", ret))
       \/ /\ At("get_credentials", 78)
          /\ Houston("GET", <<Format(Top.loc.gateway), "credentials">>, EmptyDict, 79)
       \/ /\ At("get_credentials", 79)
          /\ RaiseForStatus(81)
       \/ /\ At("get_credentials", 81)
          /\ ReturnJsonOrEmpty

get_credentials ==
    /\ UNCHANGED file
    /\ \/ /\ At("get_credentials", 74)
          /\ Call(75, "list_gateway_statuses", 176,
                  [status |-> PyNone, gateways |-> PyList(<<Top.loc.gateway>>)])
          /\ UNCHANGED calls
       \/ /\ At("get_credentials", 75)
          /\ UNCHANGED calls
          /\ IF NoSuchGateway(ret)
             THEN Raise(<<>>, Exc("ValueError", 0, PyStr("no such IB Gateway")))
             ELSE Goto(<<>>, 78, Put(Top.loc, "statuses", ret))
       \/ /\ At("get_credentials", 78)
          /\ Houston("GET", <<Format(Top.loc.gateway), "credentials">>, EmptyDict, 79)
       \/ /\ At("get_credentials", 79)
          /\ RaiseForStatus(81)
       \/ /\ At("get_credentials", 81)
          /\ ReturnJsonOrEmpty

(* a prompt for every call without password, username or not *)
NeedsPrompt_WithoutUsername(username, password) == ~Truthy(password)

(* `if username and not password` *)
NeedsPrompt(username, password) == Truthy(username) /\ ~Truthy(password)

(* what getpass.getpass can answer *)
PromptAnswers == {PyStr(""), PyStr("secret")}

(* data of set_credentials *)
set_credentials_data(username, password, trading_mode) ==
    LET d0 == EmptyDict
        d1 == IF Truthy(username) THEN Put(d0, "username", username) ELSE d0
        d2 == IF Truthy(password) THEN Put(d1, "password", password) ELSE d1
    IN IF Truthy(trading_mode) THEN Put(d2, "trading_mode", trading_mode) ELSE d2

(* a set_credentials that asks for the password before the pre-check *)
set_credentials_PromptsFirst ==
    /\ UNCHANGED file
    /\ \/ /\ At("set_credentials", 126)
          /\ UNCHANGED calls
          /\ IF NeedsPrompt(Top.loc.username, Top.loc.password)
             THEN \/ \E answer \in PromptAnswers :
                        Goto(<<Ev("prompt", 0, answer)>>, 125,
                             Put(Top.loc, "password", answer))
                  \/ Raise(<<Ev("prompt", 0, PyNone)>>, Exc("EOFError", 0, PyNone))
             ELSE Goto(<<>>, 125, Top.loc)
       \/ /\ At("set_credentials", 125)
          /\ Call(127, "list_gateway_statuses", 176,
                  [status |-> PyNone, gateways |-> PyList(<<Top.loc.gateway>>)])
          /\ UNCHANGED calls
       \/ /\ At("set_credentials", 127)
          /\ UNCHANGED calls
          /\ IF NoSuchGateway(ret)
             THEN Raise(<<>>, Exc("ValueError", 0, PyStr("no such IB Gateway")))
             ELSE Goto(<<>>, 133, Put(Top.loc, "statuses", ret))
       \/ /\ At("set_credentials", 133)
          /\ Houston("PUT", <<Format(Top.loc.gateway), "credentials">>,
                     [data |-> PyDict(set_credentials_data(
                                   Top.loc.username, Top.loc.password,
                                   Top.loc.trading_mode)),
                      timeout |-> PyInt(180)],
                     142)
       \/ /\ At("set_credentials", 142)
          /\ RaiseForStatus(143)
       \/ /\ At("set_credentials", 143)
          /\ ReturnJson

set_credentials ==
    /\ UNCHANGED file
    /\ \/ /\ At("set_credentials", 126)
          /\ Call(127, "list_gateway_statuses", 176,
                  [status |-> PyNone, gateways |-> PyList(<<Top.loc.gateway>>)])
          /\ UNCHANGED calls
       \/ /\ At("set_credentials", 127)
          /\ UNCHANGED calls
          /\ IF NoSuchGateway(ret)
             THEN Raise(<<>>, Exc("ValueError", 0, PyStr("no such IB Gateway")))
             ELSE Goto(<<>>, 130, Put(Top.loc, "statuses", ret))
       \/ /\ At("set_credentials", 130)
          /\ UNCHANGED calls
          /\ IF NeedsPrompt(Top.loc.username, Top.loc.password)
             THEN \/ \E answer \in PromptAnswers :
                        Goto(<<Ev("prompt", 0, answer)>>, 133,
                             Put(Top.loc, "password", answer))
                  \/ Raise(<<Ev("prompt", 0, PyNone)>>, Exc("EOFError", 0, PyNone))
             ELSE Goto(<<>>, 133, Top.loc)
       \/ /\ At("set_credentials", 133)
          /\ Houston("PUT", <<Format(Top.loc.gateway), "credentials">>,
                     [data |-> PyDict(set_credentials_data(
                                   Top.loc.username, Top.loc.password,
                                   Top.loc.trading_mode)),
                      timeout |-> PyInt(180)],
                     142)
       \/ /\ At("set_credentials", 142)
          /\ RaiseForStatus(143)
       \/ /\ At("set_credentials", 143)
          /\ ReturnJson

(* params of start_gateways and of stop_gateways *)
start_gateways_params(gateways, wait) ==
    LET p0 == Put(EmptyDict, "wait", wait)
    IN IF Truthy(gateways) THEN Put(p0, "gateways", gateways) ELSE p0

(* a start_gateways that posts again after a response with a failed status *)
start_gateways_Retries ==
    /\ UNCHANGED file
    /\ \/ /\ At("start_gateways", 216)
          /\ Houston("POST", <<"ibgrouter", "gateways">>,
                     [params |-> PyDict(start_gateways_params(
                                     Top.loc.gateways, Top.loc.wait)),
                      timeout |-> PyInt(60 * 60 * 24)],
                     222)
       \/ /\ At("start_gateways", 222)
          /\ IF ~Is2xx(Top.loc.response.status) /\ Len(calls) < 2
             THEN Goto(<<>>, 216, Top.loc) /\ UNCHANGED calls
             ELSE RaiseForStatus(223)
       \/ /\ At("start_gateways", 223)
          /\ ReturnJson

start_gateways ==
    /\ UNCHANGED file
    /\ \/ /\ At("start_gateways", 216)
          /\ Houston("POST", <<"ibgrouter", "gateways">>,
                     [params |-> PyDict(start_gateways_params(
                                     Top.loc.gateways, Top.loc.wait)),
                      timeout |-> PyInt(60 * 60 * 24)],
                     222)
       \/ /\ At("start_gateways", 222)
          /\ RaiseForStatus(223)
       \/ /\ At("start_gateways", 223)
          /\ ReturnJson

stop_gateways_params(gateways, wait) ==
    LET p0 == Put(EmptyDict, "wait", wait)
    IN IF Truthy(gateways) THEN Put(p0, "gateways", gateways) ELSE p0

stop_gateways ==
    /\ UNCHANGED file
    /\ \/ /\ At("stop_gateways", 255)
          /\ Houston("DELETE", <<"ibgrouter", "gateways">>,
                     [params |-> PyDict(stop_gateways_params(
                                     Top.loc.gateways, Top.loc.wait)),
                      timeout |-> PyInt(60)],
                     260)
       \/ /\ At("stop_gateways", 260)
          /\ RaiseForStatus(261)
       \/ /\ At("stop_gateways", 261)
          /\ ReturnJson

(* what open(filename) and file.read() can do: the file is missing, or it  *)
(* holds one of these texts, or reading it fails.                          *)
FileTexts == {PyStr(""), PyStr("lines")}

(* `with open(filename) as file:` *)
OpenFile(pc) ==
    /\ UNCHANGED calls
    /\ \/ /\ Truthy(Top.loc.filename)
          /\ file' = "open"
          /\ Goto(<<Ev("open", 0, Top.loc.filename)>>, pc, Top.loc)
       \/ /\ file' = file
          /\ Raise(<<>>, Exc("FileNotFoundError", 0, Top.loc.filename))

(* an upload that reads the file, leaves the with block and then sends the *)
(* PUT                                                                     *)
PutFile_AfterClose(path) ==
    /\ file = "open"
    /\ "response" \notin DOMAIN Top.loc
    /\ file' = "closed"
    /\ \E text \in FileTexts :
          /\ calls' = Append(calls, Request("PUT", path, [data |-> text]))
          /\ \E r \in Responses :
                Goto(<<Ev("close", 0, Top.loc.filename), Ev("transport", 0, PyNone)>>,
                     Top.pc, Put(Top.loc, "response", r))

(* an upload without the with block's cleanup: an exception in the read or *)
(* in the PUT leaves the file open                                         *)
PutFile_LeaksOnError(path) ==
    /\ file = "open"
    /\ "response" \notin DOMAIN Top.loc
    /\ UNCHANGED file
    /\ \/ \E text \in FileTexts :
             \/ HoustonReturns("PUT", path, [data |-> text], Top.pc)
             \/ HoustonRaises("PUT", path, [data |-> text])
       \/ /\ UNCHANGED calls
          /\ Raise(<<>>, Exc("UnicodeDecodeError", 0, Top.loc.filename))

(* `response = houston.put(path, data=file.read())` inside the with block; *)
(* an exception leaves the block, which closes the file                    *)
PutFile(path) ==
    /\ file = "open"
    /\ "response" \notin DOMAIN Top.loc
    /\ \/ \E text \in FileTexts :
             \/ /\ HoustonReturns("PUT", path, [data |-> text], Top.pc)
                /\ UNCHANGED file
             \/ /\ HoustonRaises("PUT", path, [data |-> text])
                /\ file' = "closed"
       \/ /\ UNCHANGED calls
          /\ Raise(<<>>, Exc("UnicodeDecodeError", 0, Top.loc.filename))
          /\ file' = "closed"

(* the normal exit of the with block closes the file *)
CloseFile(pc) ==
    /\ file = "open"
    /\ "response" \in DOMAIN Top.loc
    /\ file' = "closed"
    /\ Goto(<<Ev("close", 0, Top.loc.filename)>>, pc, Top.loc)
    /\ UNCHANGED calls

load_ibg_config ==
    \/ /\ At("load_ibg_config", 283)
       /\ OpenFile(284)
    \/ /\ At("load_ibg_config", 284)
       /\ PutFile(<<"ibgrouter", "config">>)
    \/ /\ At("load_ibg_config", 284)
       /\ CloseFile(285)
    \/ /\ At("load_ibg_config", 285)
       /\ RaiseForStatus(286)
       /\ UNCHANGED file
    \/ /\ At("load_ibg_config", 286)
       /\ ReturnJson
       /\ UNCHANGED file

get_ibg_config ==
    /\ UNCHANGED file
    /\ \/ /\ At("get_ibg_config", 297)
          /\ Houston("GET", <<"ibgrouter", "config">>, EmptyDict, 298)
       \/ /\ At("get_ibg_config", 298)
          /\ RaiseForStatus(300)
       \/ /\ At("get_ibg_config", 300)
          /\ ReturnJsonOrEmpty

----------------------------------------------------------------------------
(* quantrocket.countdown                                                   *)

(* `service = service or "countdown"` *)
ServiceName(service) == IF Truthy(service) THEN service ELSE PyStr("countdown")

get_crontab ==
    /\ UNCHANGED file
    /\ \/ /\ At("get_crontab", 62)
          /\ Houston("GET", <<Format(ServiceName(Top.loc.service)), "crontab">>,
                     EmptyDict, 64)
       \/ /\ At("get_crontab", 64)
          /\ RaiseForStatus(65)
       \/ /\ At("get_crontab", 65)
          /\ UNCHANGED calls
          /\ Return(<<Ev("text", Top.loc.response.status, PyText(Top.loc.response.content))>>,
                    PyText(Top.loc.response.content))

load_crontab ==
    \/ /\ At("load_crontab", 87)
       /\ OpenFile(89)
    \/ /\ At("load_crontab", 89)
       /\ PutFile(<<Format(ServiceName(Top.loc.service)), "crontab">>)
    \/ /\ At("load_crontab", 89)
       /\ CloseFile(90)
    \/ /\ At("load_crontab", 90)
       /\ RaiseForStatus(91)
       /\ UNCHANGED file
    \/ /\ At("load_crontab", 91)
       /\ ReturnJson
       /\ UNCHANGED file

(* a get_timezone that reads the body without the status check *)
get_timezone_Unchecked ==
    /\ UNCHANGED file
    /\ \/ /\ At("get_timezone", 115)
          /\ Houston("GET", <<Format(ServiceName(Top.loc.service)), "timezone">>,
                     EmptyDict, 118)
       \/ /\ At("get_timezone", 118)
          /\ ReturnJson

get_timezone ==
    /\ UNCHANGED file
    /\ \/ /\ At("get_timezone", 115)
          /\ Houston("GET", <<Format(ServiceName(Top.loc.service)), "timezone">>,
                     EmptyDict, 117)
       \/ /\ At("get_timezone", 117)
          /\ RaiseForStatus(118)
       \/ /\ At("get_timezone", 118)
          /\ ReturnJson

(* a set_timezone that sends the request again after a failed status *)
set_timezone_Retries ==
    /\ UNCHANGED file
    /\ \/ /\ At("set_timezone", 153)
          /\ Houston("PUT", <<Format(ServiceName(Top.loc.service)), "timezone">>,
                     [params |-> PyDict(Put(EmptyDict, "tz", Top.loc.tz))], 156)
       \/ /\ At("set_timezone", 156)
          /\ IF ~Is2xx(Top.loc.response.status) /\ Len(calls) < 2
             THEN Goto(<<>>, 153, Top.loc) /\ UNCHANGED calls
             ELSE RaiseForStatus(157)
       \/ /\ At("set_timezone", 157)
          /\ ReturnJson

set_timezone ==
    /\ UNCHANGED file
    /\ \/ /\ At("set_timezone", 153)
          /\ Houston("PUT", <<Format(ServiceName(Top.loc.service)), "timezone">>,
                     [params |-> PyDict(Put(EmptyDict, "tz", Top.loc.tz))], 156)
       \/ /\ At("set_timezone", 156)
          /\ RaiseForStatus(157)
       \/ /\ At("set_timezone", 157)
          /\ ReturnJson

----------------------------------------------------------------------------
(* The CLI adapters.                                                       *)

(* the first line of each function *)
StartLine(fn) ==
    CASE fn = "get_credentials" -> 74
      [] fn = "set_credentials" -> 126
      [] fn = "list_gateway_statuses" -> 176
      [] fn = "start_gateways" -> 216
      [] fn = "stop_gateways" -> 255
      [] fn = "load_ibg_config" -> 283
      [] fn = "get_ibg_config" -> 297
      [] fn = "get_crontab" -> 62
      [] fn = "load_crontab" -> 87
      [] fn = "get_timezone" -> 115
      [] fn = "set_timezone" -> 153

(* json_to_cli(func, *args, **kwargs): calls func, and returns what it     *)
(* prints with the exit code: 0 with the result, 1 with the error raised.  *)
json_to_cli ==
    /\ UNCHANGED <<calls, file>>
    /\ \/ /\ At("json_to_cli", 1)
          /\ Call(2, Top.loc.func, StartLine(Top.loc.func), Top.loc.args)
       \/ /\ At("json_to_cli", 2)
          /\ Return(<<>>, PyTuple(<<ret, PyInt(0)>>))
       \/ /\ At("json_to_cli", 3)
          /\ Return(<<>>, PyTuple(<<Top.loc.exc, PyInt(1)>>))

JsonToCli(pc, func, args) == Call(pc, "json_to_cli", 1, [func |-> func, args |-> args])

(* a route that tests `tz is not None` instead of `tz` *)
TimezoneRoute_IsNotNone(tz) == IF tz # PyNone THEN "set_timezone" ELSE "get_timezone"

(* `if tz:` *)
TimezoneRoute(tz) == IF Truthy(tz) THEN "set_timezone" ELSE "get_timezone"

_cli_get_or_set_timezone ==
    /\ UNCHANGED <<calls, file>>
    /\ \/ /\ At("_cli_get_or_set_timezone", 160)
          /\ IF TimezoneRoute(Top.loc.tz) = "set_timezone"
             THEN JsonToCli(161, "set_timezone",
                            [tz |-> Top.loc.tz, service |-> Top.loc.service])
             ELSE JsonToCli(163, "get_timezone", [service |-> Top.loc.service])
       \/ /\ At("_cli_get_or_set_timezone", 161)
          /\ Return(<<>>, ret)
       \/ /\ At("_cli_get_or_set_timezone", 163)
          /\ Return(<<>>, ret)

(* a choice that takes every filename other than None as given *)
LoadOrShow_IsNotNone(filename) == IF filename # PyNone THEN "load" ELSE "show"

(* `if filename:` *)
LoadOrShow(filename) == IF Truthy(filename) THEN "load" ELSE "show"

_load_or_show_crontab ==
    /\ UNCHANGED <<calls, file>>
    /\ \/ /\ At("_load_or_show_crontab", 35)
          /\ IF LoadOrShow(Top.loc.filename) = "load"
             THEN JsonToCli(36, "load_crontab",
                            [filename |-> Top.loc.filename, service |-> Top.loc.service])
             ELSE Call(39, "get_crontab", 62, [service |-> Top.loc.service])
       \/ /\ At("_load_or_show_crontab", 36)
          /\ Return(<<>>, ret)
       \/ /\ At("_load_or_show_crontab", 39)
          /\ Return(<<>>, PyTuple(<<ret, PyInt(0)>>))

(* a route that looks at username and password only *)
CredentialsRoute_IgnoresTradingMode(username, password, trading_mode) ==
    IF Truthy(username) \/ Truthy(password)
    THEN "set_credentials"
    ELSE "get_credentials"

(* `if kwargs.get("username") or kwargs.get("password") or                 *)
(* kwargs.get("trading_mode")`                                             *)
CredentialsRoute(username, password, trading_mode) ==
    IF Truthy(username) \/ Truthy(password) \/ Truthy(trading_mode)
    THEN "set_credentials"
    ELSE "get_credentials"

_cli_get_or_set_credentials ==
    /\ UNCHANGED <<calls, file>>
    /\ \/ /\ At("_cli_get_or_set_credentials", 146)
          /\ IF CredentialsRoute(Top.loc.username, Top.loc.password,
                                 Top.loc.trading_mode) = "set_credentials"
             THEN JsonToCli(147, "set_credentials", Top.loc)
             ELSE JsonToCli(149, "get_credentials", [gateway |-> Top.loc.gateway])
       \/ /\ At("_cli_get_or_set_credentials", 147)
          /\ Return(<<>>, ret)
       \/ /\ At("_cli_get_or_set_credentials", 149)
          /\ Return(<<>>, ret)

_cli_list_gateway_statuses ==
    /\ UNCHANGED <<calls, file>>
    /\ \/ /\ At("_cli_list_gateway_statuses", 187)
          /\ JsonToCli(188, "list_gateway_statuses", Top.loc)
       \/ /\ At("_cli_list_gateway_statuses", 188)
          /\ Return(<<>>, ret)

_cli_start_gateways ==
    /\ UNCHANGED <<calls, file>>
    /\ \/ /\ At("_cli_start_gateways", 226)
          /\ JsonToCli(227, "start_gateways", Top.loc)
       \/ /\ At("_cli_start_gateways", 227)
          /\ Return(<<>>, ret)

_cli_stop_gateways ==
    /\ UNCHANGED <<calls, file>>
    /\ \/ /\ At("_cli_stop_gateways", 264)
          /\ JsonToCli(265, "stop_gateways", Top.loc)
       \/ /\ At("_cli_stop_gateways", 265)
          /\ Return(<<>>, ret)

_cli_load_or_show_config ==
    /\ UNCHANGED <<calls, file>>
    /\ \/ /\ At("_cli_load_or_show_config", 305)
          /\ IF LoadOrShow(Top.loc.filename) = "load"
             THEN JsonToCli(306, "load_ibg_config", [filename |-> Top.loc.filename])
             ELSE JsonToCli(308, "get_ibg_config", EmptyDict)
       \/ /\ At("_cli_load_or_show_config", 306)
          /\ Return(<<>>, ret)
       \/ /\ At("_cli_load_or_show_config", 308)
          /\ Return(<<>>, ret)

----------------------------------------------------------------------------
(* The calls a caller can make: every entry point with every argument.     *)

GatewayArgs == {PyNone, PyStr(""), PyStr("ibg1")}
GatewaysArgs == {PyNone, PyList(<<>>), PyList(<<PyStr("ibg1")>>), PyStr("ibg1")}
StatusArgs == {PyNone, PyStr("running")}
WaitArgs == {PyBool(FALSE), PyBool(TRUE)}
UsernameArgs == {PyNone, PyStr(""), PyStr("user")}
PasswordArgs == {PyNone, PyStr(""), PyStr("pw")}
TradingModeArgs == {PyNone, PyStr("paper")}
ServiceArgs == {PyNone, PyStr("countdown-usa")}
TzArgs == {PyNone, PyStr(""), PyStr("America/New_York")}
FilenameArgs == {PyNone, PyStr(""), PyStr("upload.txt")}

CredentialsArgs ==
    [gateway : GatewayArgs, username : UsernameArgs, password : PasswordArgs,
     trading_mode : TradingModeArgs]

EndpointCalls ==
    {Frame("get_credentials", 74, a) : a \in [gateway : GatewayArgs]}
    \cup {Frame("set_credentials", 126, a) : a \in CredentialsArgs}
    \cup {Frame("list_gateway_statuses", 176, a) :
             a \in [status : StatusArgs, gateways : GatewaysArgs]}
    \cup {Frame("start_gateways", 216, a) : a \in [gateways : GatewaysArgs, wait : WaitArgs]}
    \cup {Frame("stop_gateways", 255, a) : a \in [gateways : GatewaysArgs, wait : WaitArgs]}
    \cup {Frame("load_ibg_config", 283, a) : a \in [filename : FilenameArgs \ {PyNone}]}
    \cup {Frame("get_ibg_config", 297, EmptyDict)}
    \cup {Frame("get_crontab", 62, a) : a \in [service : ServiceArgs]}
    \cup {Frame("load_crontab", 87, a) :
             a \in [filename : FilenameArgs \ {PyNone}, service : ServiceArgs]}
    \cup {Frame("get_timezone", 115, a) : a \in [service : ServiceArgs]}
    \cup {Frame("set_timezone", 153, a) : a \in [tz : TzArgs \ {PyNone}, service : ServiceArgs]}

CliCalls ==
    {Frame("_cli_get_or_set_credentials", 146, a) : a \in CredentialsArgs}
    \cup {Frame("_cli_list_gateway_statuses", 187, a) :
             a \in [status : StatusArgs, gateways : GatewaysArgs]}
    \cup {Frame("_cli_start_gateways", 226, a) : a \in [gateways : GatewaysArgs, wait : WaitArgs]}
    \cup {Frame("_cli_stop_gateways", 264, a) : a \in [gateways : GatewaysArgs, wait : WaitArgs]}
    \cup {Frame("_cli_load_or_show_config", 305, a) : a \in [filename : FilenameArgs]}
    \cup {Frame("_load_or_show_crontab", 35, a) :
             a \in [filename : FilenameArgs, service : ServiceArgs]}
    \cup {Frame("_cli_get_or_set_timezone", 160, a) : a \in [tz : TzArgs, service : ServiceArgs]}

----------------------------------------------------------------------------
(* quantrocket/_cli/utils/stream.py: to_bytes, a generator.                *)

(* a text line is the sequence of its code points, a bytes line the        *)
(* sequence of its bytes                                                   *)
PyUnicode(cps) == [t |-> "unicode", v |-> cps]
PyBytes(bs) == [t |-> "bytes", v |-> bs]

(* the UTF-8 bytes of one code point *)
EncodeCodePoint(cp) ==
    IF cp < 128 THEN <<cp>>
    ELSE IF cp < 2048 THEN <<192 + (cp \div 64), 128 + (cp % 64)>>
    ELSE IF cp < 65536
         THEN <<224 + (cp \div 4096), 128 + ((cp \div 64) % 64), 128 + (cp % 64)>>
         ELSE <<240 + (cp \div 262144), 128 + ((cp \div 4096) % 64),
                128 + ((cp \div 64) % 64), 128 + (cp % 64)>>

RECURSIVE EncodeUtf8(_)
(* str.encode("utf-8") *)
EncodeUtf8(cps) ==
    IF cps = <<>> THEN <<>> ELSE EncodeCodePoint(Head(cps)) \o EncodeUtf8(Tail(cps))

(* six.PY3: the package's annotations need Python 3 *)
PY3 == TRUE

(* `six.PY3 and isinstance(line, six.string_types)` *)
IsText(line) == PY3 /\ line.t = "unicode"

MaxLines == 3

(* the lines a file can hold: "a\n", "e-acute\n", the euro sign without    *)
(* newline, a musical symbol beyond the 16-bit plane, the empty text, and  *)
(* a line that is bytes already                                            *)
LineValues ==
    {PyUnicode(<<97, 10>>), PyUnicode(<<233, 10>>), PyUnicode(<<8364>>),
     PyUnicode(<<119070, 10>>), PyUnicode(<<>>), PyBytes(<<98, 233, 10>>)}

RECURSIVE SeqsUpTo(_, _)
(* the sequences over S of length at most n *)
SeqsUpTo(S, n) ==
    IF n = 0 THEN {<<>>}
    ELSE LET shorter == SeqsUpTo(S, n - 1)
         IN shorter \cup {Append(q, x) : q \in shorter, x \in S}

(* a to_bytes that takes all the lines of f before it yields the first *)
to_bytes_ReadsAll ==
    /\ UNCHANGED <<calls, file>>
    /\ \/ /\ At("to_bytes", 21)
          /\ LET f == Top.loc.f.v
                 read == Top.loc.read.v
             IN IF "pos" \notin DOMAIN Top.loc
                THEN Goto([i \in 1..Len(f) |-> Ev("readline", 0, f[i])], 21,
                          Put(Put(Top.loc, "read", PyInt(0)), "pos", PyInt(0)))
                ELSE IF read < Len(f)
                THEN Goto(<<>>, 22,
                          Put(Put(Top.loc, "read", PyInt(read + 1)), "line", f[read + 1]))
                ELSE Return(<<>>, PyNone)
       \/ /\ At("to_bytes", 22)
          /\ IF IsText(Top.loc.line) THEN Goto(<<>>, 23, Top.loc) ELSE Goto(<<>>, 24, Top.loc)
       \/ /\ At("to_bytes", 23)
          /\ Goto(<<>>, 24, Put(Top.loc, "line", PyBytes(EncodeUtf8(Top.loc.line.v))))
       \/ /\ At("to_bytes", 24)
          /\ Goto(<<Ev("yield", 0, Top.loc.line)>>, 21, Top.loc)

(* to_bytes(f), driven by a consumer that takes its items one by one: the  *)
(* local `read` is the position of the iterator over f.                    *)
to_bytes ==
    /\ UNCHANGED <<calls, file>>
    /\ \/ /\ At("to_bytes", 21)
          /\ LET f == Top.loc.f.v
                 read == Top.loc.read.v
             IN IF read < Len(f)
                THEN Goto(<<Ev("readline", 0, f[read + 1])>>, 22,
                          Put(Put(Top.loc, "read", PyInt(read + 1)), "line", f[read + 1]))
                ELSE Return(<<>>, PyNone)
       \/ /\ At("to_bytes", 22)
          /\ IF IsText(Top.loc.line) THEN Goto(<<>>, 23, Top.loc) ELSE Goto(<<>>, 24, Top.loc)
       \/ /\ At("to_bytes", 23)
          /\ Goto(<<>>, 24, Put(Top.loc, "line", PyBytes(EncodeUtf8(Top.loc.line.v))))
       \/ /\ At("to_bytes", 24)
          /\ Goto(<<Ev("yield", 0, Top.loc.line)>>, 21, Top.loc)

StreamCalls ==
    {Frame("to_bytes", 21, [f |-> PyList(lines), read |-> PyInt(0)]) :
        lines \in SeqsUpTo(LineValues, MaxLines)}

Init ==
    /\ frames \in {<<f>> : f \in EndpointCalls \cup CliCalls \cup StreamCalls}
    /\ ret = PyNone
    /\ outcome = Running
    /\ calls = <<>>
    /\ trace = <<>>
    /\ file = "unopened"
    /\ entry = frames[1]

Next ==
    \/ get_credentials
    \/ set_credentials
    \/ list_gateway_statuses
    \/ start_gateways
    \/ stop_gateways
    \/ load_ibg_config
    \/ get_ibg_config
    \/ get_crontab
    \/ load_crontab
    \/ get_timezone
    \/ set_timezone
    \/ json_to_cli
    \/ _cli_get_or_set_credentials
    \/ _cli_list_gateway_statuses
    \/ _cli_start_gateways
    \/ _cli_stop_gateways
    \/ _cli_load_or_show_config
    \/ _load_or_show_crontab
    \/ _cli_get_or_set_timezone
    \/ to_bytes

Spec == Init /\ [][Next]_vars

----------------------------------------------------------------------------
(* Vocabulary of the properties.                                           *)

Events == DOMAIN trace

CredentialsFns == {"get_credentials", "set_credentials"}

(* the i-th event is the return of the listing call made by the pre-check  *)
(* of get_credentials or set_credentials                                   *)
PreCheckListingReturned(i) ==
    /\ trace[i].ev = "return"
    /\ trace[i].fn = "list_gateway_statuses"
    /\ \E j \in 1..(i - 1) : trace[j].ev = "call" /\ trace[j].fn \in CredentialsFns

(* the i-th event is the raise of the local 'no such IB Gateway' error *)
NoSuchGatewayRaised(i) ==
    /\ trace[i].ev = "raise"
    /\ trace[i].fn \in CredentialsFns
    /\ trace[i].val = Exc("ValueError", 0, PyStr("no such IB Gateway"))

IsCredentialsRequest(r) == r.path[2] = "credentials"

IsListingRequest(r) == r.verb = "GET" /\ r.path = <<"ibgrouter", "gateways">>

(* the execution is over: every frame has returned or the error escaped *)
Done == outcome.kind # "running"

----------------------------------------------------------------------------
(* C1: in get_credentials and set_credentials, whenever the pre-check's    *)
(* listing call returns an empty result, the next thing the function does  *)
(* is raise the local 'no such IB Gateway' error, and no request on        *)
(* /<gateway>/credentials is ever made in that execution.                  *)
C1_PreCheckStopsCredentialsRequest ==
    \A i \in Events :
        (PreCheckListingReturned(i) /\ ~Truthy(trace[i].val)) =>
            /\ \A k \in DOMAIN calls : ~IsCredentialsRequest(calls[k])
            /\ IF i < Len(trace)
               THEN NoSuchGatewayRaised(i + 1)
               ELSE Len(frames) > 0 /\ Top.fn \in CredentialsFns /\ Top.pc \in {75, 127}

(* set_credentials called directly has ended with the local error after    *)
(* an empty listing                                                        *)
C1_Witness ==
    /\ entry.fn = "set_credentials"
    /\ Done
    /\ \E i \in Events :
          /\ PreCheckListingReturned(i)
          /\ trace[i].val = PyDict(EmptyDict)
          /\ i < Len(trace)
          /\ NoSuchGatewayRaised(i + 1)

----------------------------------------------------------------------------
BodyReads == {"json", "text", "content"}

Success(status) == status \in 200..299

(* C2: raise_for_status_with_json raises, for every response whose status  *)
(* is not 2xx, an error with that status whose message is the error field  *)
(* of the body when the body is a JSON object with that field and the raw  *)
(* text when the body is not JSON; for a 2xx response it returns and the   *)
(* calling function goes on to read the body.                              *)
C2_StatusTranslator ==
    \A i \in Events :
        trace[i].ev = "check" =>
            LET status == trace[i].status
                content == trace[i].val.v
                parsed == JsonLoads(content)
            IN IF Success(status)
               THEN IF i < Len(trace)
                    THEN trace[i + 1].fn = trace[i].fn /\ trace[i + 1].ev \in BodyReads
                    ELSE Len(frames) > 0 /\ Top.fn = trace[i].fn
               ELSE /\ i < Len(trace)
                    /\ trace[i + 1].ev = "raise"
                    /\ trace[i + 1].fn = trace[i].fn
                    /\ trace[i + 1].val.type = "HTTPError"
                    /\ trace[i + 1].val.status = status
                    /\ (content = <<LBrace, Quoted("error"), Colon, Quoted("not found"), RBrace>>
                           => trace[i + 1].val.msg = PyStr("not found"))
                    /\ (parsed.ok /\ parsed.val.t = "dict" /\ "error" \in DOMAIN parsed.val.v
                           => trace[i + 1].val.msg = parsed.val.v["error"])
                    /\ (~parsed.ok => trace[i + 1].val.msg = PyText(content))

(* a 404 with the body {"error": "not found"} was turned into the error    *)
(* (404, "not found") and a library caller received it                     *)
C2_Witness ==
    /\ outcome = Raised(Exc("HTTPError", 404, PyStr("not found")))
    /\ \E i \in Events :
          /\ trace[i].ev = "check"
          /\ trace[i].status = 404
          /\ trace[i].val.v = <<LBrace, Quoted("error"), Colon, Quoted("not found"), RBrace>>

(* C3: in every endpoint function the response of a transport call goes    *)
(* through raise_for_status_with_json before its body is read: a body read *)
(* (json(), text, content) is preceded by a status check of the same       *)
(* function with no transport call in between, and is only ever made on a  *)
(* 2xx response; the first thing done with a response is the check.        *)
C3_StatusCheckedBeforeBodyRead ==
    /\ \A i \in Events :
          trace[i].ev \in BodyReads =>
             /\ Success(trace[i].status)
             /\ \E j \in 1..(i - 1) :
                   /\ trace[j].ev = "check"
                   /\ trace[j].fn = trace[i].fn
                   /\ \A k \in (j + 1)..(i - 1) : trace[k].ev # "transport"
    /\ \A i \in Events :
          (trace[i].ev = "transport" /\ i < Len(trace)) =>
              \/ trace[i + 1].ev \in {"check", "raise"}
              \/ /\ trace[i + 1].ev = "close"
                 /\ i + 1 < Len(trace) => trace[i + 2].ev = "check"

(* get_crontab read the text of a response after its status was checked *)
C3_Witness ==
    /\ entry.fn = "get_crontab"
    /\ outcome.kind = "return"
    /\ \E i \in Events : trace[i].ev = "text" /\ trace[i - 1].ev = "check"

(* C4: after the status check passed, get_credentials and get_ibg_config   *)
(* look at response.content; when it is empty they return the empty        *)
(* mapping without calling json(), and when it is not empty they return    *)
(* the decoded JSON body.                                                  *)
C4_EmptyContentIsEmptyMapping ==
    \A i \in Events :
        ( /\ trace[i].ev = "check"
          /\ trace[i].fn \in {"get_credentials", "get_ibg_config"}
          /\ Success(trace[i].status)
          /\ i < Len(trace) ) =>
            LET content == trace[i].val.v
                parsed == JsonLoads(content)
            IN /\ trace[i + 1].ev = "content"
               /\ trace[i + 1].fn = trace[i].fn
               /\ IF content = <<>>
                  THEN /\ trace[i + 2].ev = "return"
                       /\ trace[i + 2].fn = trace[i].fn
                       /\ trace[i + 2].val = PyDict(EmptyDict)
                  ELSE /\ trace[i + 2].ev = "json"
                       /\ parsed.ok =>
                             /\ trace[i + 3].ev = "return"
                             /\ trace[i + 3].fn = trace[i].fn
                             /\ trace[i + 3].val = parsed.val

(* get_credentials passed the pre-check, got a 204 with no content and     *)
(* returned {}                                                             *)
C4_Witness ==
    /\ entry.fn = "get_credentials"
    /\ outcome = Returned(PyDict(EmptyDict))
    /\ Len(calls) = 2
    /\ \E i \in Events :
          /\ trace[i].ev = "content"
          /\ trace[i].status = 204
          /\ trace[i].val.v = <<>>

----------------------------------------------------------------------------
(* the endpoint functions with a JSON return type *)
JsonFns ==
    {"get_timezone", "set_timezone", "load_crontab", "list_gateway_statuses",
     "set_credentials", "start_gateways", "stop_gateways", "load_ibg_config",
     "get_credentials", "get_ibg_config"}

(* the two of them that look at response.content before parsing *)
ContentCheckingFns == {"get_credentials", "get_ibg_config"}

(* the i-th event is a passed status check of a response with no body, and *)
(* the function has taken its next step                                    *)
EmptySuccess(i) ==
    /\ trace[i].ev = "check"
    /\ Success(trace[i].status)
    /\ trace[i].val.v = <<>>
    /\ i < Len(trace)

(* C5 as stated: every endpoint function with a JSON return type returns   *)
(* the empty mapping when the response has a success status and an empty   *)
(* body.                                                                   *)
C5_Original ==
    \A i \in Events :
        (EmptySuccess(i) /\ trace[i].fn \in JsonFns) =>
            \E k \in (i + 1)..Len(trace) :
                /\ trace[k].ev = "return"
                /\ trace[k].fn = trace[i].fn
                /\ trace[k].val = PyDict(EmptyDict)

(* C5 amended: on a success status with an empty body, get_credentials and *)
(* get_ibg_config return the empty mapping; the other eight functions call *)
(* response.json() on the empty body and raise its parse error.            *)
C5_Amended ==
    \A i \in Events :
        (EmptySuccess(i) /\ trace[i].fn \in JsonFns) =>
            IF trace[i].fn \in ContentCheckingFns
            THEN /\ trace[i + 1].ev = "content"
                 /\ trace[i + 2] = [ev |-> "return", fn |-> trace[i].fn, status |-> 0,
                                    val |-> PyDict(EmptyDict)]
            ELSE /\ trace[i + 1].ev = "json"
                 /\ trace[i + 2] = [ev |-> "raise", fn |-> trace[i].fn, status |-> 0,
                                    val |-> Exc("JSONDecodeError", 0, PyText(<<>>))]

(* get_timezone got a 204 with no body and ended with the parse error *)
C5_Witness ==
    /\ entry.fn = "get_timezone"
    /\ outcome = Raised(Exc("JSONDecodeError", 0, PyText(<<>>)))
    /\ \E i \in Events : EmptySuccess(i) /\ trace[i].status = 204

----------------------------------------------------------------------------
(* The arguments of the endpoint function are the locals of the entry      *)
(* frame: the adapters of these functions pass their kwargs through.       *)

ListEntry == entry.fn \in {"list_gateway_statuses", "_cli_list_gateway_statuses"}

StartStopEntry ==
    entry.fn \in {"start_gateways", "_cli_start_gateways",
                  "stop_gateways", "_cli_stop_gateways"}

CredentialsEntry ==
    entry.fn \in {"get_credentials", "set_credentials", "_cli_get_or_set_credentials"}

IsCredentialsPut(r) == r.verb = "PUT" /\ IsCredentialsRequest(r)

(* an argument left at its default None has no key in the mapping d *)
Omits(d, key, arg) == arg = PyNone => key \notin DOMAIN d.v

(* the keys of list_gateway_statuses, of the pre-check's listing call, of  *)
(* gateways in start_gateways and stop_gateways, and of username and       *)
(* trading_mode in set_credentials                                         *)
UnsetKeysOmitted(r) ==
    /\ (ListEntry /\ IsListingRequest(r)) =>
          /\ Omits(r.kw.params, "status", entry.loc.status)
          /\ Omits(r.kw.params, "gateways", entry.loc.gateways)
    /\ (CredentialsEntry /\ IsListingRequest(r)) =>
          "status" \notin DOMAIN r.kw.params.v
    /\ StartStopEntry =>
          Omits(r.kw.params, "gateways", entry.loc.gateways)
    /\ IsCredentialsPut(r) =>
          /\ Omits(r.kw.data, "username", entry.loc.username)
          /\ Omits(r.kw.data, "trading_mode", entry.loc.trading_mode)

(* C6 as stated: every optional argument left unset has no key in the      *)
(* params or the body of the request, wait and password included.          *)
C6_Original ==
    \A k \in DOMAIN calls :
        /\ UnsetKeysOmitted(calls[k])
        /\ StartStopEntry =>
              (entry.loc.wait = PyBool(FALSE) => "wait" \notin DOMAIN calls[k].kw.params.v)
        /\ IsCredentialsPut(calls[k]) =>
              Omits(calls[k].kw.data, "password", entry.loc.password)

(* the non-empty answers given to the password prompt *)
PromptedPasswords ==
    {trace[i].val : i \in {j \in Events : trace[j].ev = "prompt" /\ Truthy(trace[j].val)}}

(* C6 amended: every optional argument left unset has no key in the params *)
(* or the body of the request, with two exceptions: start_gateways and     *)
(* stop_gateways always send wait, with the value False when it is left    *)
(* unset; and set_credentials sends a password that was left unset exactly *)
(* when the prompt it issues for a username without password was answered  *)
(* with a non-empty password, which is then the value sent.                *)
C6_Amended ==
    \A k \in DOMAIN calls :
        /\ UnsetKeysOmitted(calls[k])
        /\ StartStopEntry =>
              /\ "wait" \in DOMAIN calls[k].kw.params.v
              /\ calls[k].kw.params.v["wait"] = entry.loc.wait
        /\ (IsCredentialsPut(calls[k]) /\ entry.loc.password = PyNone) =>
              IF "password" \in DOMAIN calls[k].kw.data.v
              THEN PromptedPasswords = {calls[k].kw.data.v["password"]}
              ELSE PromptedPasswords = {}

(* start_gateways was called with nothing set and sent only wait=False *)
C6_Witness ==
    /\ entry = Frame("start_gateways", 216, [gateways |-> PyNone, wait |-> PyBool(FALSE)])
    /\ Len(calls) = 1
    /\ calls[1].kw.params = PyDict([wait |-> PyBool(FALSE)])

(* C7: get_credentials and set_credentials, called with the required       *)
(* gateway name omitted (None or empty), make no transport call.           *)
C7_MissingGatewayMakesNoCall ==
    (CredentialsEntry /\ ~Truthy(entry.loc.gateway)) => calls = <<>>

(* C8 as stated: when the pre-check has raised 'no such IB Gateway', the   *)
(* transport client has not been invoked.                                  *)
C8_Original ==
    \A i \in Events : NoSuchGatewayRaised(i) => Len(calls) = 0

(* C8 amended: when the pre-check has raised 'no such IB Gateway', the     *)
(* transport client has been invoked exactly once, for the listing GET on  *)
(* /ibgrouter/gateways filtered to the gateway, which returned before the  *)
(* error was raised; no request on /<gateway>/credentials was made.        *)
C8_Amended ==
    \A i \in Events :
        NoSuchGatewayRaised(i) =>
            /\ Len(calls) = 1
            /\ calls[1] = Request("GET", <<"ibgrouter", "gateways">>,
                                  [params |-> PyDict([gateways |->
                                                 PyList(<<entry.loc.gateway>>)])])
            /\ \E j \in 1..(i - 1) : trace[j].ev = "transport"
            /\ PreCheckListingReturned(i - 1)

(* the CLI command for an unknown gateway ended with the local error and   *)
(* exit code 1, after one request                                          *)
C8_Witness ==
    /\ entry.fn = "_cli_get_or_set_credentials"
    /\ entry.loc.gateway = PyStr("ibg1")
    /\ outcome = Returned(PyTuple(<<Exc("ValueError", 0, PyStr("no such IB Gateway")),
                                    PyInt(1)>>))
    /\ Len(calls) = 1

(* C9 as stated: every completed execution of an endpoint function has     *)
(* invoked the transport client exactly once.                              *)
C9_Original ==
    (Done /\ entry \in EndpointCalls) => Len(calls) = 1

(* C9 amended: an endpoint function other than get_credentials and         *)
(* set_credentials invokes the transport client at most once, and exactly  *)
(* once in every execution that returns; get_credentials and               *)
(* set_credentials invoke it at most twice, and exactly twice in every     *)
(* execution that returns: the listing GET of the pre-check, then the      *)
(* request on /<gateway>/credentials.                                      *)
C9_Amended ==
    entry \in EndpointCalls =>
        IF entry.fn \in CredentialsFns
        THEN /\ Len(calls) <= 2
             /\ outcome.kind = "return" =>
                   /\ Len(calls) = 2
                   /\ IsListingRequest(calls[1])
                   /\ IsCredentialsRequest(calls[2])
        ELSE /\ Len(calls) <= 1
             /\ outcome.kind = "return" => Len(calls) = 1

(* set_credentials returned after its two requests *)
C9_Witness ==
    /\ entry.fn = "set_credentials"
    /\ outcome.kind = "return"
    /\ Len(calls) = 2
    /\ calls[2].verb = "PUT"

(* the endpoint functions json_to_cli has called so far *)
CliCalled ==
    {trace[i].val.v : i \in {j \in Events : trace[j].ev = "call" /\ trace[j].fn = "json_to_cli"}}

(* the command went the GET way: only get_timezone, only GET requests *)
RoutedToGet ==
    /\ CliCalled \subseteq {"get_timezone"}
    /\ \A k \in DOMAIN calls : calls[k].verb = "GET" /\ calls[k].path[2] = "timezone"

(* the command went the PUT way: only set_timezone, only PUT with tz=value *)
RoutedToSet ==
    /\ CliCalled \subseteq {"set_timezone"}
    /\ \A k \in DOMAIN calls :
          /\ calls[k].verb = "PUT"
          /\ calls[k].path[2] = "timezone"
          /\ calls[k].kw = [params |-> PyDict([tz |-> entry.loc.tz])]

(* C10 as stated: _cli_get_or_set_timezone goes the GET way when no tz is  *)
(* supplied and the PUT way for every supplied value, the empty string     *)
(* included.                                                               *)
C10_Original ==
    entry.fn = "_cli_get_or_set_timezone" =>
        /\ Cardinality(CliCalled) <= 1
        /\ IF entry.loc.tz = PyNone THEN RoutedToGet ELSE RoutedToSet

(* C10 amended: _cli_get_or_set_timezone invokes exactly one endpoint      *)
(* function per call: get_timezone when no tz is supplied or the supplied  *)
(* tz is the empty string, and set_timezone with that value (PUT with      *)
(* params tz=value) when a non-empty tz is supplied.                       *)
C10_Amended ==
    entry.fn = "_cli_get_or_set_timezone" =>
        /\ Cardinality(CliCalled) <= 1
        /\ (Done => Cardinality(CliCalled) = 1)
        /\ IF entry.loc.tz \in {PyNone, PyStr("")} THEN RoutedToGet ELSE RoutedToSet

(* the command with tz "" has ended, having sent one GET *)
C10_Witness ==
    /\ entry.fn = "_cli_get_or_set_timezone"
    /\ entry.loc.tz = PyStr("")
    /\ Done
    /\ Len(calls) = 1
    /\ calls[1].verb = "GET"

----------------------------------------------------------------------------
EndpointFns ==
    {"get_credentials", "set_credentials", "list_gateway_statuses", "start_gateways",
     "stop_gateways", "load_ibg_config", "get_ibg_config", "get_crontab",
     "load_crontab", "get_timezone", "set_timezone"}

(* an argument is populated when it is neither None nor the empty string *)
Populated(x) == x # PyNone /\ x # PyStr("")

(* the frames of fn on the stack *)
FramesOf(fn) == {i \in DOMAIN frames : frames[i].fn = fn}

(* C11: _cli_get_or_set_credentials calls set_credentials, with its        *)
(* keyword arguments, if and only if at least one of username, password    *)
(* and trading_mode is populated; otherwise it calls get_credentials with  *)
(* the gateway alone, and then no PUT is ever issued.                      *)
C11_CredentialsRoute ==
    entry.fn = "_cli_get_or_set_credentials" =>
        LET set == \/ Populated(entry.loc.username)
                   \/ Populated(entry.loc.password)
                   \/ Populated(entry.loc.trading_mode)
        IN /\ Cardinality(CliCalled) <= 1
           /\ Len(trace) > 1 => Cardinality(CliCalled) = 1
           /\ IF set
              THEN /\ CliCalled \subseteq {"set_credentials"}
                   /\ FramesOf("get_credentials") = {}
                   /\ \A i \in FramesOf("set_credentials") :
                         \A k \in DOMAIN entry.loc :
                            k # "password" => frames[i].loc[k] = entry.loc[k]
              ELSE /\ CliCalled \subseteq {"get_credentials"}
                   /\ FramesOf("set_credentials") = {}
                   /\ \A i \in FramesOf("get_credentials") :
                         /\ frames[i].loc.gateway = entry.loc.gateway
                         /\ DOMAIN frames[i].loc \subseteq {"gateway", "statuses", "response"}
                   /\ \A k \in DOMAIN calls : calls[k].verb = "GET"

(* the command with only a trading mode has sent its PUT *)
C11_Witness ==
    /\ entry = Frame("_cli_get_or_set_credentials", 146,
                     [gateway |-> PyStr("ibg1"), username |-> PyNone,
                      password |-> PyNone, trading_mode |-> PyStr("paper")])
    /\ Len(calls) = 2
    /\ calls[2].verb = "PUT"
    /\ calls[2].kw.data = PyDict([trading_mode |-> PyStr("paper")])

----------------------------------------------------------------------------
(* an error was raised during the command *)
ErrorRaised == \E i \in Events : trace[i].ev = "raise"

(* C12: every CLI adapter of countdown and ibg returns, when the endpoint  *)
(* call it makes raises, the error message with a non-zero exit code - it  *)
(* neither returns exit code 0 nor lets the error escape - and returns     *)
(* exit code 0 when the call succeeds.                                     *)
C12_CliExitCodes ==
    entry \in CliCalls =>
        /\ outcome.kind # "raise"
        /\ outcome.kind = "return" =>
              /\ outcome.val.t = "tuple"
              /\ Len(outcome.val.v) = 2
              /\ ErrorRaised => outcome.val.v[2] # PyInt(0)
              /\ ~ErrorRaised => outcome.val.v[2] = PyInt(0)

----------------------------------------------------------------------------
SetCredentialsEntry == entry.fn \in {"set_credentials", "_cli_get_or_set_credentials"}

Prompts == {i \in Events : trace[i].ev = "prompt"}

(* the events that are the PUT of set_credentials *)
CredentialsPuts == {i \in Events : trace[i].ev = "transport" /\ trace[i].fn = "set_credentials"}

(* C13: in a call of set_credentials with a username and without password  *)
(* the prompt is issued exactly once before the PUT on                     *)
(* /<gateway>/credentials, and never twice; in a call without username the *)
(* prompt is never issued, whatever password and trading_mode are.         *)
C13_PromptOnceBeforePut ==
    SetCredentialsEntry =>
        /\ Cardinality(Prompts) <= 1
        /\ \A i \in Prompts : trace[i].fn = "set_credentials"
        /\ ~Populated(entry.loc.username) => Prompts = {}
        /\ Populated(entry.loc.username) /\ ~Populated(entry.loc.password) =>
              \A k \in CredentialsPuts :
                 /\ Cardinality(Prompts) = 1
                 /\ \A i \in Prompts : i < k

(* username without password: the prompt was answered and the PUT sent *)
C13_Witness ==
    /\ entry.fn = "set_credentials"
    /\ entry.loc.username = PyStr("user")
    /\ entry.loc.password = PyNone
    /\ Cardinality(Prompts) = 1
    /\ CredentialsPuts # {}
    /\ \E k \in DOMAIN calls :
          /\ IsCredentialsPut(calls[k])
          /\ "password" \in DOMAIN calls[k].kw.data.v
          /\ calls[k].kw.data.v["password"] = PyStr("secret")

(* C14: no PUT of set_credentials has a body with the key username and     *)
(* without the key password, whatever the prompt was answered.             *)
C14_UsernameNeverWithoutPassword ==
    \A k \in DOMAIN calls :
       IsCredentialsPut(calls[k]) =>
          ("username" \in DOMAIN calls[k].kw.data.v => "password" \in DOMAIN calls[k].kw.data.v)

----------------------------------------------------------------------------
(* a transport error or a remote error *)
TransportOrRemote(e) == e.t = "exc" /\ e.type \in {"ConnectionError", "HTTPError"}

(* C15: when a transport call raises a transport error or the status       *)
(* translator raises a remote error - the pre-check's listing call         *)
(* included - every endpoint function in progress terminates with that     *)
(* same error: none of them returns a value or does a later step (prompt,  *)
(* request, body read), and a library caller receives the error unchanged. *)
C15_ErrorsPropagateUnchanged ==
    \A i \in Events :
       (trace[i].ev = "raise" /\ TransportOrRemote(trace[i].val)) =>
          /\ \A j \in Events : j > i => trace[j].fn \notin EndpointFns
          /\ \A k \in DOMAIN frames :
                /\ frames[k].fn \notin EndpointFns
                /\ "exc" \in DOMAIN frames[k].loc => frames[k].loc.exc = trace[i].val
          /\ entry \in EndpointCalls => (i = Len(trace) /\ outcome = Raised(trace[i].val))

(* set_credentials ended with the remote error of its pre-check's listing *)
C15_Witness ==
    /\ entry.fn = "set_credentials"
    /\ Len(trace) > 0
    /\ trace[Len(trace)].ev = "raise"
    /\ trace[Len(trace)].fn = "list_gateway_statuses"
    /\ outcome.kind = "raise"
    /\ outcome.val.type = "HTTPError"
    /\ outcome.val.status = 500
    /\ Len(calls) = 1

----------------------------------------------------------------------------
Transports == {i \in Events : trace[i].ev = "transport"}

(* the i-th event shows a transport call that failed or a non-2xx response *)
CallFailed(i) ==
    \/ trace[i].ev = "check" /\ ~Success(trace[i].status)
    \/ trace[i].ev = "raise" /\ trace[i].val.type = "ConnectionError"

(* C16: no request (verb, path) is issued twice in an execution, and after *)
(* a transport call that failed or returned a non-2xx status there is no   *)
(* further transport call.                                                 *)
C16_NoRetries ==
    /\ \A j, k \in DOMAIN calls :
          j < k => <<calls[j].verb, calls[j].path>> # <<calls[k].verb, calls[k].path>>
    /\ Cardinality(Transports) = Len(calls)
    /\ \A i \in Events : CallFailed(i) => \A j \in Transports : j < i

(* start_gateways ended on a 500 after its single POST *)
C16_Witness ==
    /\ entry.fn = "start_gateways"
    /\ outcome.kind = "raise"
    /\ outcome.val.type = "HTTPError"
    /\ outcome.val.status = 500
    /\ Len(calls) = 1
    /\ calls[1].verb = "POST"

----------------------------------------------------------------------------
LoadFns == {"load_crontab", "load_ibg_config"}

(* the events that are the PUT of an upload *)
UploadPuts == {i \in Transports : trace[i].fn \in LoadFns}

Closes == {i \in Events : trace[i].ev = "close"}

(* C17 as stated: the file is already closed when load_crontab or          *)
(* load_ibg_config issues its PUT.                                         *)
C17_Original ==
    \A i \in UploadPuts : \E j \in Closes : j < i

(* C17 amended: the file of load_crontab and load_ibg_config is open when  *)
(* the PUT is issued and until the transport call is over; it is closed    *)
(* right after that call returned or raised, before the status check.      *)
C17_Amended ==
    \A i \in UploadPuts :
       /\ \E j \in Events : j < i /\ trace[j].ev = "open"
       /\ \A j \in Closes : j > i
       /\ i = Len(trace) => file = "open"
       /\ i < Len(trace) =>
             /\ file = "closed"
             /\ trace[i + 1].ev \in {"close", "raise"}
             /\ trace[i + 1].ev = "raise" => trace[i + 1].val.type = "ConnectionError"

(* the PUT of load_crontab was answered and the file is still open *)
C17_Witness ==
    /\ entry.fn = "load_crontab"
    /\ file = "open"
    /\ Len(calls) = 1
    /\ calls[1].verb = "PUT"
    /\ At("load_crontab", 89)
    /\ "response" \in DOMAIN Top.loc

----------------------------------------------------------------------------
Reads == {i \in Events : trace[i].ev = "readline"}

Yields == {i \in Events : trace[i].ev = "yield"}

(* how many events of the set S come before the k-th event, k included *)
CountUpTo(S, k) == Cardinality({j \in S : j <= k})

(* the UTF-8 encodings of the text lines, as tables of bytes *)
Utf8Table(line) ==
    CASE line = PyUnicode(<<97, 10>>) -> PyBytes(<<97, 10>>)
      [] line = PyUnicode(<<233, 10>>) -> PyBytes(<<195, 169, 10>>)
      [] line = PyUnicode(<<8364>>) -> PyBytes(<<226, 130, 172>>)
      [] line = PyUnicode(<<119070, 10>>) -> PyBytes(<<240, 157, 132, 158, 10>>)
      [] line = PyUnicode(<<>>) -> PyBytes(<<>>)
      [] OTHER -> line

(* C18: to_bytes yields, for a finite sequence of lines, as many items as  *)
(* there are lines, the i-th item being the UTF-8 encoding of the i-th     *)
(* line (a line that is bytes already is yielded as it is), in order; and  *)
(* it is lazy: the i-th item is yielded when exactly i lines have been     *)
(* read, and line i+1 is read only after item i was yielded.               *)
C18_ToBytesLazyUtf8 ==
    entry.fn = "to_bytes" =>
        LET f == entry.loc.f.v
        IN /\ \A k \in Yields :
                 LET i == CountUpTo(Yields, k)
                 IN /\ i <= Len(f)
                    /\ trace[k].val = Utf8Table(f[i])
                    /\ trace[k].val.t = "bytes"
                    /\ CountUpTo(Reads, k) = i
           /\ \A k \in Reads :
                 LET i == CountUpTo(Reads, k)
                 IN /\ i <= Len(f)
                    /\ trace[k].val = f[i]
                    /\ CountUpTo(Yields, k) = i - 1
           /\ Done => (outcome.kind = "return" /\ Cardinality(Yields) = Len(f))

(* three lines went through, text of one, two and three bytes a character *)
C18_Witness ==
    /\ entry.fn = "to_bytes"
    /\ entry.loc.f.v = <<PyUnicode(<<97, 10>>), PyUnicode(<<233, 10>>), PyUnicode(<<8364>>)>>
    /\ Done
    /\ Cardinality(Yields) = 3
    /\ trace[Len(trace) - 1].val = PyBytes(<<226, 130, 172>>)

----------------------------------------------------------------------------
LoadOrShowEntry == entry.fn \in {"_cli_load_or_show_config", "_load_or_show_crontab"}

(* the calls of endpoint functions, in the order they were made *)
EndpointCallEvents ==
    {i \in Events : trace[i].ev = "call" /\ trace[i].val.v \in EndpointFns}

LoadFnOf(adapter) ==
    IF adapter = "_load_or_show_crontab" THEN "load_crontab" ELSE "load_ibg_config"

GetFnOf(adapter) ==
    IF adapter = "_load_or_show_crontab" THEN "get_crontab" ELSE "get_ibg_config"

(* C19: _cli_load_or_show_config and _load_or_show_crontab call exactly    *)
(* one endpoint function: with a filename the load function alone (the     *)
(* only request is the PUT of the file's contents), with no filename the   *)
(* get function alone (the only request is a GET, and no file is opened).  *)
C19_LoadOrShowCallsOne ==
    LoadOrShowEntry =>
        /\ Cardinality(EndpointCallEvents) <= 1
        /\ Done => Cardinality(EndpointCallEvents) = 1
        /\ IF Populated(entry.loc.filename)
           THEN /\ \A i \in EndpointCallEvents : trace[i].val.v = LoadFnOf(entry.fn)
                /\ \A k \in DOMAIN calls :
                      /\ calls[k].verb = "PUT"
                      /\ calls[k].kw.data \in FileTexts
           ELSE /\ \A i \in EndpointCallEvents : trace[i].val.v = GetFnOf(entry.fn)
                /\ \A k \in DOMAIN calls : calls[k].verb = "GET"
                /\ file = "unopened"
                /\ \A i \in Events : trace[i].ev # "open"

(* the config command with a filename has uploaded the file and returned *)
C19_Witness ==
    /\ entry.fn = "_cli_load_or_show_config"
    /\ entry.loc.filename = PyStr("upload.txt")
    /\ outcome.kind = "return"
    /\ Len(calls) = 1
    /\ calls[1].verb = "PUT"
    /\ file = "closed"

----------------------------------------------------------------------------
(* C20: in set_credentials the prompt, if it occurs, occurs after the      *)
(* pre-check's listing call returned a non-empty result: it is never       *)
(* issued when the pre-check failed or the listing call raised.            *)
C20_PromptAfterPreCheck ==
    \A i \in Prompts :
       /\ \E j \in 1..(i - 1) : PreCheckListingReturned(j) /\ Truthy(trace[j].val)
       /\ \A j \in 1..(i - 1) : trace[j].ev # "raise"
       /\ \A j \in Events : ~NoSuchGatewayRaised(j)

(* the listing named the gateway, then the prompt was issued *)
C20_Witness ==
    /\ entry.fn = "set_credentials"
    /\ Prompts # {}
    /\ \E j \in Events : PreCheckListingReturned(j) /\ Truthy(trace[j].val)

----------------------------------------------------------------------------
(* a load function is in progress *)
Loading == \E k \in DOMAIN frames : frames[k].fn \in LoadFns

(* the file of the upload was opened *)
Opened == \E i \in Events : trace[i].ev = "open" /\ trace[i].fn \in LoadFns

(* C21: once load_crontab or load_ibg_config has terminated - by its       *)
(* return, by the error of the status translator or of the body's parse,   *)
(* by an error of the file's read or of the PUT itself - the file it       *)
(* opened is closed; no execution ends with the file open.                 *)
C21_FileClosedAtEnd ==
    /\ (Opened /\ ~Loading) => file = "closed"
    /\ Done => file # "open"
    /\ file = "open" =>
          \E k \in DOMAIN frames :
             /\ frames[k].fn \in LoadFns
             /\ frames[k].pc \in {89, 284}
    /\ file = "unopened" => ~Opened

(* load_crontab ended with the transport error of its PUT, the file closed *)
C21_Witness ==
    /\ entry.fn = "load_crontab"
    /\ Opened
    /\ outcome.kind = "raise"
    /\ outcome.val.type = "ConnectionError"
    /\ Len(calls) = 1
    /\ file = "closed"

====
